---- MODULE Spec2Model ----
(***************************************************************************)
(* Model of openstackkit/l3_evacuate.py: the Picker classes (BalancePicker, *)
(* CyclePicker), L3AgentEvacuator.run and SequenceEvacuator.migrate_router  *)
(* with its helpers.  Agent 0 is the source agent (self._src_agent); the    *)
(* destinations are 1..nDest in the iteration order of Picker.dest.  The    *)
(* Neutron control plane and the remote hosts are the environment: every    *)
(* call into them answers nondeterministically (return, raise).             *)
(***************************************************************************)
EXTENDS Integers, Sequences, FiniteSets, TLC

\* ---------------------------------------------------------------- bounds
MaxDest == 2
MaxRouters == 2
MaxLoad == 3
MaxRetry == 2
MaxPorts == 1
MaxExtra == 1
MaxReruns == 1
MaxSched == 1
MaxCleanCalls == 3
MaxVerifyPorts == 2
MaxWaitTimeout == 3
MaxLeastWait == 4
MaxWaitInterval == 2

\* ------------------------------------------------------ program constants
WaitInterval == 1
WaitTimeout == 30
LeastWaitTime == 3
VerifyLeastWait == 1
VerifyInterval == 1
DefaultRetry == 1
NicIdLen == 11

Never == 0 - 1

\* A network namespace that does not exist on the host.
Absent == [exists |-> FALSE, nics |-> {}]
None == 0 - 1
SrcAgent == 0
RouterIds == 1..MaxRouters

VARIABLES
    \* Picker
    pickerKind,        \* "balance" | "cycle"                (_setup_picker)
    nDest,             \* len(self.dest)
    agentLoad,         \* dest[id]['agent']['configurations']['routers']
    dest_routers,      \* dest[id]['routers']
    dest_cycle,        \* position of self._dest_cycle: the index yielded next
    src_router_count,  \* self.src_router_count (None before the first init)
    routers,           \* init(): the snapshot list
    idx,               \* init(): position of the for loop in the snapshot
    totals,            \* BalancePicker.init(): running totals
    assignedTo,        \* history: destination chosen by init() per router
    yielded,           \* history: pairs returned by get_next() since init()
    \* control plane
    hosting,           \* router -> set of agents hosting it
    schedLeft,         \* scheduler moves still allowed (bound)
    \* hosts
    footprint,         \* agents on whose host the interfaces of the
                       \* router under migration are: the agent it is
                       \* migrated from, the agents it was seen present on,
                       \* less the host cleaned
    netns,             \* one host, one router: the namespace
                       \* qrouter-<id> and the interfaces in it, or Absent
    cleanLog,          \* the _ensure_clean_router_on_host calls made on
                       \* that host: what each found, returned and ran
    verifyCall,        \* one _verify_router_on_host call: the ports listed,
                       \* the listing of the namespace, the ip_forward read
    verifyResult,      \* what that call returned ("none" before)
    waitCall,          \* one _wait_until call: timeout, interval, least
                       \* wait, and the first poll on which func is True
    waitResult,        \* what that call did and returned
    \* L3AgentEvacuator
    self_retry,        \* self._retry
    stopl3,            \* self._stop_agent_after_evacuate
    pc,                \* position of the program
    err,               \* exception that escaped run(), "none" otherwise
    depth,             \* nesting depth of run() inside run(), counted up
                       \* to MaxReruns
    stopped,           \* _stop_agent was called
    evacuated,         \* the count of the last summary (None before)
    leftReported,      \* routers named by the "not evacuated" warnings
    \* migrate_router and its callees, for the current assignment
    cur,               \* router
    tgt,               \* target_agent
    src_agent,         \* src_agent (self._src_agent unless the caller gives one)
    curPorts,          \* admin-enabled ports listed for the router
    retry,             \* retry parameter of _remove_router/_add_router
    addTo,             \* agent parameter of the running _add_router
    added,             \* result of _add_router(target_agent, ...)
    recRetry,          \* retry parameter of _retry_failed_router
    inRecon,           \* inside _retry_failed_router
    ensAgent,          \* agent parameter of _ensure_router_added
    \* history of the current migration
    removeLog,         \* outcome of each detach attempt
    removed,           \* "none" | "yes" | "no": result of _remove_router
    accepted,          \* attach accepted: ensured, or added with no port
    warned,            \* a warning/error naming the router was logged
    presenceOK,        \* _verify_router_on_host returned True off the source
    cleanedSrc,        \* _ensure_router_cleaned(src_agent) was called
    ensRaised,         \* the last _ensure_router_added caught an exception
    opFailed,          \* a call of this migration raised, timed out or
                       \* answered no
    errored,           \* an error naming the router was logged (log_error)
    vfy,               \* the first _verify_router_on_host of the last
                       \* _ensure_router_added: ports listed, result, and
                       \* whether a remote command was run
    acceptedRouters    \* routers whose migration was accepted since init()

pickerVars == <<pickerKind, nDest, agentLoad, dest_routers, dest_cycle,
                src_router_count, routers, idx, totals, assignedTo, yielded>>
cpVars == <<hosting, schedLeft>>
nsVars == <<netns, cleanLog>>
callVars == <<verifyCall, verifyResult, waitCall, waitResult>>
hostVars == <<footprint, nsVars, callVars>>
runVars == <<self_retry, stopl3, pc, err, depth, stopped, evacuated,
             leftReported>>
migVars == <<cur, tgt, src_agent, curPorts, retry, addTo, added, recRetry,
             inRecon, ensAgent>>
histVars == <<removeLog, removed, accepted, warned, presenceOK,
              cleanedSrc, ensRaised, opFailed, errored, vfy,
              acceptedRouters>>
runVars_but_pc == <<self_retry, stopl3, err, depth, stopped, evacuated,
                    leftReported>>
vars == <<pickerVars, cpVars, hostVars, runVars, migVars, histVars>>

\* ---------------------------------------------------------------- helpers
Dests == 1..nDest
Agents == 0..nDest

Max2(a, b) == IF a >= b THEN a ELSE b

\* list_routers_on_l3_agent(agent): the routers hosted by the agent, in
\* listing order (ascending id).
list_routers_on_l3_agent(a) ==
    LET S == {r \in RouterIds : a \in hosting[r]}
    IN  [i \in 1..Cardinality(S) |->
            CHOOSE r \in S : Cardinality({x \in S : x < r}) = i - 1]

\* min(totals.keys(), key=...): the first key, in iteration order, whose
\* total is minimal.
MinAgentLast(t, D) ==
    CHOOSE d \in 1..D : \A e \in 1..D : t[d] < t[e] \/ (t[d] = t[e] /\ d >= e)
MaxAgent(t, D) ==
    CHOOSE d \in 1..D : \A e \in 1..D : t[d] > t[e] \/ (t[d] = t[e] /\ d <= e)
MinAgent(t, D) ==
    CHOOSE d \in 1..D : \A e \in 1..D : t[d] < t[e] \/ (t[d] = t[e] /\ d <= e)

\* itertools.cycle(...).next(): the index after c, wrapping around.
CycleAdvance(c, D) == IF c >= D THEN 1 ELSE c + 1

\* list.pop(): removes the last element.
PopKeep(q) == q
Pop(q) == SubSeq(q, 1, Len(q) - 1)
Last(q) == q[Len(q)]

\* Picker.has_next
has_next(q) == \E d \in DOMAIN q : Len(q[d]) > 0

\* Picker.get_next: at most len(dest) draws from the cycle; the first agent
\* drawn whose queue is non-empty gives up its last router.
RECURSIVE get_next_loop(_, _, _, _)
get_next_loop(q, c, candidate, D) ==
    IF candidate > 0
    THEN IF Len(q[c]) > 0
         THEN [agent |-> c, router |-> Last(q[c]),
               q |-> [q EXCEPT ![c] = Pop(q[c])], cycle |-> CycleAdvance(c, D)]
         ELSE get_next_loop(q, CycleAdvance(c, D), candidate - 1, D)
    ELSE [agent |-> None, router |-> None, q |-> q, cycle |-> c]
\* A get_next that draws one agent from the cycle and gives up when its
\* queue is empty.
get_next_one_draw(q, c, D) ==
    get_next_loop(q, c, IF D > 0 THEN 1 ELSE 0, D)
get_next(q, c, D) == get_next_loop(q, c, D, D)

\* L3AgentEvacuator._wait_until.  firstTrue is the index (from 0) of the
\* first poll on which func returns True, Never when it never does.
RECURSIVE wait_loop(_, _, _, _, _, _)
wait_loop(firstTrue, n, wait_time, wait_timeout, wait_interval, least) ==
    IF wait_time < least \/ wait_time <= wait_timeout
    THEN IF n = firstTrue
         THEN [wait_time |-> wait_time, polls |-> n + 1, found |-> TRUE]
         ELSE wait_loop(firstTrue, n + 1, wait_time + wait_interval,
                        wait_timeout, wait_interval, least)
    ELSE [wait_time |-> wait_time, polls |-> n, found |-> FALSE]
wait_until(firstTrue, wait_timeout, wait_interval, least) ==
    LET w == wait_loop(firstTrue, 0, 0, wait_timeout, wait_interval, least)
    IN  [ok |-> ~(w.wait_time > wait_timeout), polls |-> w.polls,
         found |-> w.found]

\* _check_api_removed / _check_api_added on the control plane as it is.
check_api_removed(r) == Cardinality(hosting[r]) = 0
check_api_added(a, r) == a \in hosting[r]

\* _extra_timeout_for_router: ports + floating ips + routes; others counts
\* the ports that are not admin-enabled, the floating ips and the routes.
extra_timeout_for_router(others) == curPorts + others

\* _verify_ports_on_host: ports is the number of ports that
\* list_ports(admin_state_up=True) returns; with none the answer is True at
\* once.  Otherwise the interfaces of the namespace are listed on the host:
\* nics is "all" (every expected interface is there), "missing", or "raise"
\* (_list_nics_in_netns_on_remote raises).
verify_ports_on_host(ports, nics) ==
    IF ports = 0
    THEN [result |-> "true", remote |-> FALSE]
    ELSE [result |-> IF nics = "all" THEN "true"
                     ELSE IF nics = "missing" THEN "false" ELSE "raise",
          remote |-> TRUE]

\* _verify_ipforward_on_host: runs cat .../ip_forward in the namespace on
\* the host; True when the command succeeds with output "1".
verify_ipforward_on_host(ipf) ==
    [result |-> IF ipf = "1" THEN "true" ELSE "false", remote |-> TRUE]

\* _verify_router_on_host: the ports, then (unless they failed) the ip
\* forwarding.
verify_router_on_host(ports, nics, ipf) ==
    LET verify_ports == verify_ports_on_host(ports, nics)
    IN  IF verify_ports.result # "true"
        THEN verify_ports
        ELSE [result |-> verify_ipforward_on_host(ipf).result,
              remote |-> verify_ports.remote
                           \/ verify_ipforward_on_host(ipf).remote]

NoVerify == [ports |-> None, result |-> "none", remote |-> FALSE]

\* ------------------------------------------------------------ initial state
\* No namespace is looked at.
NsIdle == netns = Absent /\ cleanLog = <<>>

\* No single call is looked at.
NoWait == [done |-> FALSE, ok |-> FALSE, polls |-> 0, found |-> FALSE]
CallIdle ==
    /\ verifyCall = <<>> /\ verifyResult = "none"
    /\ waitCall = <<>> /\ waitResult = NoWait

\* No migration is running: the locals of migrate_router are unset.
MigIdle ==
    /\ cur = None /\ tgt = None /\ src_agent = None /\ curPorts = 0
    /\ retry = 0 /\ addTo = None /\ added = FALSE /\ recRetry = 0
    /\ inRecon = FALSE /\ ensAgent = None
HistIdle ==
    /\ removeLog = <<>> /\ removed = "none" /\ accepted = FALSE
    /\ warned = FALSE /\ presenceOK = FALSE
    /\ cleanedSrc = FALSE /\ ensRaised = FALSE
    /\ opFailed = FALSE
    /\ errored = FALSE
    /\ vfy = NoVerify

\* Picker.__init__: one queue per eligible destination, a fresh cycle over
\* the destinations, no count yet.  n routers are hosted by the source.
PickerConstructed(kind, D, loads, n) ==
    /\ pickerKind = kind
    /\ nDest = D
    /\ agentLoad = loads
    /\ dest_routers = [d \in 1..D |-> <<>>]
    /\ dest_cycle = 1
    /\ src_router_count = None
    /\ routers = <<>>
    /\ idx = 1
    /\ totals = loads
    /\ assignedTo = [r \in RouterIds |-> 0]
    /\ yielded = <<>>
    /\ hosting = [r \in RouterIds |-> IF r <= n THEN {SrcAgent} ELSE {}]
    /\ footprint = {}

\* L3AgentEvacuator.__init__
EvacuatorConstructed(r, stop) ==
    /\ self_retry = r
    /\ stopl3 = stop
    /\ pc = "run"
    /\ err = "none"
    /\ depth = 0
    /\ stopped = FALSE
    /\ evacuated = None
    /\ leftReported = {}
    /\ acceptedRouters = {}
    /\ MigIdle
    /\ HistIdle

\* The picker on its own: every kind, destination set, load metric and
\* number of routers on the source within the bounds.
InitPicker ==
    \E kind \in {"balance", "cycle"}, D \in 0..MaxDest, n \in 0..MaxRouters :
      \E loads \in [1..D -> 0..MaxLoad] :
        /\ PickerConstructed(kind, D, loads, n)
        /\ EvacuatorConstructed(0, FALSE)
        /\ schedLeft = 0
        /\ NsIdle /\ CallIdle

\* A whole evacuation: destinations start with equal load metrics.
Init ==
    \E kind \in {"balance", "cycle"}, D \in 0..MaxDest, n \in 0..MaxRouters,
       r \in 0..MaxRetry, stop \in BOOLEAN :
        /\ PickerConstructed(kind, D, [d \in 1..D |-> 0], n)
        /\ EvacuatorConstructed(r, stop)
        /\ schedLeft = MaxSched
        /\ NsIdle /\ CallIdle

\* ------------------------------------------------------------------ Picker
\* init(), up to the loop: snapshot of the source's routers, the count, and
\* (BalancePicker) the totals read from the agents' load metrics.
picker_init ==
    /\ pc = "run"
    /\ routers' = list_routers_on_l3_agent(SrcAgent)
    /\ src_router_count' = Len(routers')
    /\ totals' = IF pickerKind = "balance" THEN agentLoad ELSE totals
    /\ idx' = 1
    /\ assignedTo' = [r \in RouterIds |-> 0]
    /\ yielded' = <<>>
    /\ acceptedRouters' = {}
    /\ pc' = "init_loop"
    /\ UNCHANGED <<pickerKind, nDest, agentLoad, dest_routers, dest_cycle>>
    /\ UNCHANGED <<cpVars, migVars>>
    /\ UNCHANGED <<self_retry, stopl3, err, depth, stopped, evacuated,
                   leftReported>>
    /\ UNCHANGED <<removeLog, removed, accepted, warned, presenceOK,
                   cleanedSrc, ensRaised, opFailed, errored, vfy>>
    /\ UNCHANGED hostVars

\* BalancePicker.init: one iteration of the for loop.
BalancePicker_init_step ==
    /\ pc = "init_loop" /\ pickerKind = "balance"
    /\ idx <= Len(routers) /\ nDest > 0
    /\ LET agent_id == MinAgent(totals, nDest)
       IN  /\ dest_routers' = [dest_routers EXCEPT
                                 ![agent_id] = Append(@, routers[idx])]
           /\ totals' = [totals EXCEPT ![agent_id] = @ + 1]
           /\ assignedTo' = [assignedTo EXCEPT ![routers[idx]] = agent_id]
    /\ idx' = idx + 1
    /\ UNCHANGED <<pickerKind, nDest, agentLoad, dest_cycle, src_router_count,
                   routers, yielded>>
    /\ UNCHANGED <<cpVars, runVars, migVars, histVars>>
    /\ UNCHANGED hostVars

\* CyclePicker.init: one iteration of the for loop.
CyclePicker_init_step ==
    /\ pc = "init_loop" /\ pickerKind = "cycle"
    /\ idx <= Len(routers) /\ nDest > 0
    /\ LET agent_id == dest_cycle
       IN  /\ dest_routers' = [dest_routers EXCEPT
                                 ![agent_id] = Append(@, routers[idx])]
           /\ assignedTo' = [assignedTo EXCEPT ![routers[idx]] = agent_id]
    /\ dest_cycle' = CycleAdvance(dest_cycle, nDest)
    /\ idx' = idx + 1
    /\ UNCHANGED <<pickerKind, nDest, agentLoad, src_router_count, routers,
                   totals, yielded>>
    /\ UNCHANGED <<cpVars, runVars, migVars, histVars>>
    /\ UNCHANGED hostVars

\* init() with no destination and a router to place: min() of an empty
\* list raises ValueError, next() of an empty cycle raises StopIteration.
\* Nothing catches it: it leaves run().
picker_init_raise ==
    /\ pc = "init_loop"
    /\ idx <= Len(routers) /\ nDest = 0
    /\ err' = IF pickerKind = "balance" THEN "ValueError" ELSE "StopIteration"
    /\ pc' = "crashed"
    /\ UNCHANGED <<pickerVars, cpVars, migVars, histVars>>
    /\ UNCHANGED <<self_retry, stopl3, depth, stopped, evacuated,
                   leftReported>>
    /\ UNCHANGED hostVars

\* init() returns len(routers).
picker_init_return ==
    /\ pc = "init_loop"
    /\ idx > Len(routers)
    /\ pc' = "evacuate"
    /\ UNCHANGED <<pickerVars, cpVars, migVars, histVars>>
    /\ UNCHANGED <<self_retry, stopl3, err, depth, stopped, evacuated,
                   leftReported>>
    /\ UNCHANGED hostVars

\* A caller draining the picker: has_next() then get_next().
picker_get_next ==
    /\ pc = "evacuate"
    /\ has_next(dest_routers)
    /\ LET g == get_next(dest_routers, dest_cycle, nDest)
       IN  /\ dest_routers' = g.q
           /\ dest_cycle' = g.cycle
           /\ yielded' = Append(yielded, <<g.agent, g.router>>)
    /\ UNCHANGED <<pickerKind, nDest, agentLoad, src_router_count, routers,
                   idx, totals, assignedTo>>
    /\ UNCHANGED <<cpVars, runVars, migVars, histVars>>
    /\ UNCHANGED hostVars

\* The caller runs init() again once the picker is drained (run() calling
\* itself), with whatever the source hosts by then.
picker_rerun ==
    /\ pc = "evacuate"
    /\ ~has_next(dest_routers)
    /\ depth < MaxReruns
    /\ \E n \in 0..MaxRouters :
         hosting' = [r \in RouterIds |-> IF r <= n THEN {SrcAgent} ELSE {}]
    /\ footprint' = {}
    /\ UNCHANGED <<nsVars, callVars>>
    /\ depth' = depth + 1
    /\ pc' = "run"
    /\ UNCHANGED <<pickerVars, schedLeft, migVars, histVars>>
    /\ UNCHANGED <<self_retry, stopl3, err, stopped, evacuated, leftReported>>

NextPicker ==
    \/ picker_init
    \/ BalancePicker_init_step
    \/ CyclePicker_init_step
    \/ picker_init_raise
    \/ picker_init_return
    \/ picker_get_next
    \/ picker_rerun

SpecPicker == InitPicker /\ [][NextPicker]_vars

\* --------------------------------------------------------- migrate_router
\* evacuate(): has_next() is true; get_next() and the start of
\* migrate_router(agent, router), up to the call of _remove_router.
evacuate_next ==
    /\ pc = "evacuate"
    /\ has_next(dest_routers)
    /\ LET g == get_next(dest_routers, dest_cycle, nDest)
       IN  /\ dest_routers' = g.q
           /\ dest_cycle' = g.cycle
           /\ yielded' = Append(yielded, <<g.agent, g.router>>)
           /\ cur' = g.router
           /\ tgt' = g.agent
    /\ src_agent' = SrcAgent
    /\ retry' = self_retry
    /\ pc' = "remove_call"
    /\ UNCHANGED <<curPorts, addTo, added, recRetry, inRecon, ensAgent>>
    /\ UNCHANGED <<pickerKind, nDest, agentLoad, src_router_count, routers,
                   idx, totals, assignedTo>>
    /\ UNCHANGED <<cpVars, histVars>>
    /\ UNCHANGED <<self_retry, stopl3, err, depth, stopped, evacuated,
                   leftReported>>
    /\ footprint' = {SrcAgent}
    /\ UNCHANGED <<nsVars, callVars>>

\* evacuate(): has_next() is false, the loop ends.
evacuate_end ==
    /\ pc = "evacuate"
    /\ ~has_next(dest_routers)
    /\ pc' = "check"
    /\ UNCHANGED <<pickerVars, cpVars, migVars, histVars>>
    /\ UNCHANGED <<self_retry, stopl3, err, depth, stopped, evacuated,
                   leftReported>>
    /\ UNCHANGED hostVars

\* A _remove_router that retries once more than its budget.
remove_router_finally_once_more(need_retry, outcome) ==
    /\ removeLog' = Append(removeLog, outcome)
    /\ warned' = (warned \/ need_retry)
    /\ IF ~need_retry
       THEN /\ removed' = "yes"
            /\ retry' = self_retry
            /\ addTo' = tgt
            /\ pc' = "add_call"
       ELSE IF retry >= 0
       THEN /\ retry' = retry - 1
            /\ pc' = "remove_call"
            /\ UNCHANGED <<removed, addTo>>
       ELSE /\ removed' = "no"
            /\ pc' = "m_end"
            /\ UNCHANGED <<retry, addTo>>

\* A _remove_router whose caller attaches to the target even when the
\* detach has failed for good.
remove_router_finally_attach_anyway(need_retry, outcome) ==
    /\ removeLog' = Append(removeLog, outcome)
    /\ warned' = (warned \/ need_retry)
    /\ IF ~need_retry
       THEN /\ removed' = "yes"
            /\ retry' = self_retry
            /\ addTo' = tgt
            /\ pc' = "add_call"
       ELSE IF retry > 0
       THEN /\ retry' = retry - 1
            /\ pc' = "remove_call"
            /\ UNCHANGED <<removed, addTo>>
       ELSE /\ removed' = "no"
            /\ retry' = self_retry
            /\ addTo' = tgt
            /\ pc' = "add_call"

\* _remove_router, the finally block: True unless need_retry; with
\* need_retry the call recurses while retry > 0 and returns False at 0.
\* True sends migrate_router on to _add_router(target_agent, ...), False to
\* its "remove failed" warning.
remove_router_finally(need_retry, outcome) ==
    /\ removeLog' = Append(removeLog, outcome)
    /\ warned' = (warned \/ need_retry)
    /\ IF ~need_retry
       THEN /\ removed' = "yes"
            /\ retry' = self_retry
            /\ addTo' = tgt
            /\ pc' = "add_call"
       ELSE IF retry > 0
       THEN /\ retry' = retry - 1
            /\ pc' = "remove_call"
            /\ UNCHANGED <<removed, addTo>>
       ELSE /\ removed' = "no"
            /\ pc' = "m_end"
            /\ UNCHANGED <<retry, addTo>>

\* _remove_router: the remove_router_from_l3_agent call.  It returns (the
\* binding is gone), raises NeutronClientException, or raises something
\* else; the control plane refuses to unbind a router the agent does not
\* host.
remove_router_call ==
    /\ pc = "remove_call"
    /\ \E out \in {"ok", "nexc", "oexc"} :
         \/ /\ out = "ok"
            /\ src_agent \in hosting[cur]
            /\ hosting' = [hosting EXCEPT ![cur] = @ \ {src_agent}]
            /\ pc' = "remove_poll"
            /\ UNCHANGED <<removeLog, warned, removed, retry, addTo,
                           opFailed>>
         \/ /\ out = "nexc"
            /\ remove_router_finally(TRUE, "nexc")
            /\ opFailed' = TRUE
            /\ UNCHANGED hosting
         \/ /\ out = "oexc"
            /\ remove_router_finally(FALSE, "oexc")
            /\ opFailed' = TRUE
            /\ UNCHANGED hosting
    /\ UNCHANGED <<pickerVars, schedLeft>>
    /\ UNCHANGED <<cur, tgt, src_agent, curPorts, added, recRetry, inRecon,
                   ensAgent>>
    /\ UNCHANGED <<accepted, presenceOK, cleanedSrc, ensRaised, errored, vfy,
                   acceptedRouters>>
    /\ UNCHANGED <<self_retry, stopl3, err, depth, stopped, evacuated,
                   leftReported>>
    /\ UNCHANGED hostVars

\* _remove_router: _wait_until(_check_api_removed).  The listing answers,
\* or raises.
remove_router_poll ==
    /\ pc = "remove_poll"
    /\ \E out \in {"answer", "nexc", "oexc"} :
         \/ /\ out = "answer"
            /\ LET w == wait_until(IF check_api_removed(cur) THEN 0 ELSE Never,
                                   WaitTimeout, WaitInterval, LeastWaitTime)
               IN  IF w.ok
                   THEN /\ remove_router_finally(FALSE, "ok")
                        /\ UNCHANGED opFailed
                   ELSE /\ remove_router_finally(TRUE, "timeout")
                        /\ opFailed' = TRUE
         \/ /\ out = "nexc"
            /\ remove_router_finally(TRUE, "poll_nexc")
            /\ opFailed' = TRUE
         \/ /\ out = "oexc"
            /\ remove_router_finally(FALSE, "poll_oexc")
            /\ opFailed' = TRUE
    /\ UNCHANGED <<pickerVars, cpVars>>
    /\ UNCHANGED <<cur, tgt, src_agent, curPorts, added, recRetry, inRecon,
                   ensAgent>>
    /\ UNCHANGED <<accepted, presenceOK, cleanedSrc, ensRaised, errored, vfy,
                   acceptedRouters>>
    /\ UNCHANGED <<self_retry, stopl3, err, depth, stopped, evacuated,
                   leftReported>>
    /\ UNCHANGED hostVars

\* An _add_router that calls itself again with its retry budget as it is.
add_router_finally_no_countdown(need_retry) ==
    /\ warned' = (warned \/ need_retry)
    /\ IF need_retry /\ retry > 0
       THEN /\ retry' = retry
            /\ pc' = "add_call"
            /\ UNCHANGED <<added, recRetry>>
       ELSE /\ UNCHANGED retry
            /\ IF inRecon
               THEN /\ recRetry' = recRetry - 1
                    /\ pc' = "retry"
                    /\ UNCHANGED added
               ELSE /\ added' = ~need_retry
                    /\ pc' = "ports"
                    /\ UNCHANGED recRetry

\* _add_router, the finally block, and what its caller does with the
\* result: migrate_router keeps it in added and lists the ports;
\* _retry_failed_router drops it and calls itself with retry - 1.
add_router_finally(need_retry) ==
    /\ warned' = (warned \/ need_retry)
    /\ IF need_retry /\ retry > 0
       THEN /\ retry' = retry - 1
            /\ pc' = "add_call"
            /\ UNCHANGED <<added, recRetry>>
       ELSE /\ UNCHANGED retry
            /\ IF inRecon
               THEN /\ recRetry' = recRetry - 1
                    /\ pc' = "retry"
                    /\ UNCHANGED added
               ELSE /\ added' = ~need_retry
                    /\ pc' = "ports"
                    /\ UNCHANGED recRetry

\* _add_router: the add_router_to_l3_agent call.  The control plane binds
\* the router unless another agent hosts it.
add_router_call ==
    /\ pc = "add_call"
    /\ \E out \in {"ok", "nexc", "oexc"} :
         \/ /\ out = "ok"
            /\ hosting[cur] \subseteq {addTo}
            /\ hosting' = [hosting EXCEPT ![cur] = @ \cup {addTo}]
            /\ pc' = "add_poll"
            /\ UNCHANGED <<warned, retry, added, recRetry, opFailed>>
         \/ /\ out = "nexc"
            /\ add_router_finally(TRUE)
            /\ opFailed' = TRUE
            /\ UNCHANGED hosting
         \/ /\ out = "oexc"
            /\ add_router_finally(FALSE)
            /\ opFailed' = TRUE
            /\ UNCHANGED hosting
    /\ removeLog' = <<>>
    /\ UNCHANGED <<pickerVars, schedLeft>>
    /\ UNCHANGED <<cur, tgt, src_agent, curPorts, addTo, inRecon, ensAgent>>
    /\ UNCHANGED <<removed, accepted, presenceOK,
                   cleanedSrc, ensRaised, errored, vfy, acceptedRouters>>
    /\ UNCHANGED <<self_retry, stopl3, err, depth, stopped, evacuated,
                   leftReported>>
    /\ UNCHANGED hostVars

\* _add_router: _wait_until(_check_api_added).
add_router_poll ==
    /\ pc = "add_poll"
    /\ \E out \in {"answer", "nexc", "oexc"} :
         \/ /\ out = "answer"
            /\ LET w == wait_until(IF check_api_added(addTo, cur)
                                   THEN 0 ELSE Never,
                                   WaitTimeout, WaitInterval, LeastWaitTime)
               IN  /\ add_router_finally(~w.ok)
                   /\ opFailed' = (opFailed \/ ~w.ok)
         \/ /\ out = "nexc"
            /\ add_router_finally(TRUE)
            /\ opFailed' = TRUE
         \/ /\ out = "oexc"
            /\ add_router_finally(FALSE)
            /\ opFailed' = TRUE
    /\ UNCHANGED <<pickerVars, cpVars>>
    /\ UNCHANGED <<cur, tgt, src_agent, curPorts, addTo, inRecon, ensAgent>>
    /\ UNCHANGED <<removeLog, removed, accepted, presenceOK,
                   cleanedSrc, ensRaised, errored, vfy, acceptedRouters>>
    /\ UNCHANGED <<self_retry, stopl3, err, depth, stopped, evacuated,
                   leftReported>>
    /\ UNCHANGED hostVars

\* The call of _retry_failed_router(router, src_agent, self._retry).
enter_retry_failed_router ==
    /\ recRetry' = self_retry
    /\ inRecon' = TRUE
    /\ pc' = "retry"

\* migrate_router: list_ports(admin_state_up=True) and the branch on
\* (added, len(ports)).  A NeutronClientException of the listing is caught
\* nowhere.
migrate_list_ports ==
    /\ pc = "ports"
    /\ \/ /\ err' = "NeutronClientException"
          /\ pc' = "crashed"
          /\ opFailed' = TRUE
          /\ UNCHANGED <<curPorts, recRetry, inRecon, ensAgent, accepted>>
       \/ \E ports \in 0..MaxPorts :
            /\ curPorts' = ports
            /\ UNCHANGED <<err, opFailed>>
            /\ IF added /\ ports > 0
               THEN /\ ensAgent' = tgt
                    /\ pc' = "ensure"
                    /\ UNCHANGED <<recRetry, inRecon, accepted>>
               ELSE IF ports = 0
               THEN /\ accepted' = added
                    /\ pc' = "m_end"
                    /\ UNCHANGED <<recRetry, inRecon, ensAgent>>
               ELSE /\ enter_retry_failed_router
                    /\ UNCHANGED <<ensAgent, accepted>>
    /\ UNCHANGED <<pickerVars, cpVars>>
    /\ UNCHANGED <<cur, tgt, src_agent, retry, addTo, added>>
    /\ UNCHANGED <<removeLog, removed, warned, presenceOK, cleanedSrc,
                   ensRaised, errored, vfy, acceptedRouters>>
    /\ UNCHANGED <<self_retry, stopl3, depth, stopped, evacuated,
                   leftReported>>
    /\ UNCHANGED hostVars

\* _verify_router_on_host answers "true", "false" or "raise" (list_ports
\* or _list_nics_in_netns_on_remote raising).
PresenceOutcomes == {"true", "false", "raise"}

\* _ensure_router_added, the extended wait: the first presence check
\* failed; firstTrue is the first poll of _wait_until(_verify_router_on_host,
\* wait_timeout=extra_timeout, least_wait_time=1, wait_interval=1) that
\* returns True.
ensure_extended_wait(firstTrue, extra_timeout) ==
    wait_until(firstTrue, extra_timeout, VerifyInterval, VerifyLeastWait)

\* The presence check returned True, at once or within the extended wait
\* (raised: an exception cut the extended wait short).
ensure_presence_seen(first, firstTrue, raised, extra_timeout) ==
    \/ first = "true"
    \/ /\ first = "false"
       /\ ~raised
       /\ ensure_extended_wait(firstTrue, extra_timeout).found

\* _ensure_router_added raised inside its try block.
ensure_raised(first, raised) ==
    first = "raise" \/ (first = "false" /\ raised)

\* _ensure_router_added: the value returned.  The except clause returns
\* True.
ensure_router_added_result(first, firstTrue, raised, extra_timeout) ==
    IF ensure_raised(first, raised)
    THEN TRUE
    ELSE IF first = "true"
    THEN TRUE
    ELSE ensure_extended_wait(firstTrue, extra_timeout).ok

\* _retry_failed_router, with the router ensured or not on the agent that
\* hosts it: the source host is cleaned when the router is ensured on an
\* agent other than src_agent.
retry_cleans_source_always(ensured, agent, src) == ensured
retry_cleans_source(ensured, agent, src) == ensured /\ agent # src

\* _ensure_router_added(agent, router), and what the caller does with the
\* result: migrate_router cleans the source or starts reconciliation;
\* _retry_failed_router cleans the source when the agent is another one,
\* and logs "migrate failed" when the router is not ensured.
ensure_router_added ==
    /\ pc = "ensure"
    /\ \E ports \in 0..MaxPorts, nics \in {"all", "missing", "raise"},
          ipf \in {"1", "other"}, others \in 0..MaxExtra,
          raised \in BOOLEAN :
        \E firstTrue \in {Never} \cup (0..extra_timeout_for_router(others)) :
         LET verify == verify_router_on_host(ports, nics, ipf)
             first == verify.result
             extra_timeout == extra_timeout_for_router(others)
             res == ensure_router_added_result(first, firstTrue, raised,
                                               extra_timeout)
         IN  /\ first \in PresenceOutcomes
             \* an answer that the call does not read is not varied
             /\ ports = 0 => nics = "all"
             /\ verify_ports_on_host(ports, nics).result # "true"
                  => ipf = "1"
             /\ first # "false"
                  => (others = 0 /\ ~raised /\ firstTrue = Never)
             \* of the polls of the extended wait, the first and the last
             /\ firstTrue \in {Never, 0, extra_timeout}
             /\ raised => firstTrue = Never
             /\ vfy' = [ports |-> ports, result |-> first,
                        remote |-> verify.remote]
             /\ ensRaised' = ensure_raised(first, raised)
             /\ errored' = (errored \/ ensure_raised(first, raised) \/ ~res)
             /\ opFailed' = (opFailed \/ first # "true")
             /\ presenceOK' = (presenceOK \/
                                 (ensAgent # src_agent /\
                                  ensure_presence_seen(first, firstTrue,
                                                       raised, extra_timeout)))
             /\ footprint' =
                  IF ensure_presence_seen(first, firstTrue, raised,
                                          extra_timeout)
                  THEN footprint \cup {ensAgent}
                  ELSE footprint
             /\ warned' = (warned \/ first # "true")
             /\ accepted' = res
             /\ IF inRecon
                THEN /\ pc' = IF retry_cleans_source(res, ensAgent, src_agent)
                              THEN "clean" ELSE "m_end"
                     /\ UNCHANGED <<recRetry, inRecon>>
                ELSE IF res
                THEN /\ pc' = "clean"
                     /\ UNCHANGED <<recRetry, inRecon>>
                ELSE enter_retry_failed_router
    /\ UNCHANGED <<pickerVars, cpVars>>
    /\ UNCHANGED <<cur, tgt, src_agent, curPorts, retry, addTo, added,
                   ensAgent>>
    /\ UNCHANGED <<removeLog, removed, cleanedSrc, acceptedRouters>>
    /\ UNCHANGED <<self_retry, stopl3, err, depth, stopped, evacuated,
                   leftReported>>
    /\ UNCHANGED <<nsVars, callVars>>

\* An _ensure_router_cleaned that works on the host of self._src_agent
\* whatever src_agent it is given.
ensure_router_cleaned_own_source ==
    /\ pc = "clean"
    /\ cleanedSrc' = TRUE
    /\ \E out \in {"ok", "raise"} :
         /\ warned' = (warned \/ out = "raise")
         /\ opFailed' = (opFailed \/ out = "raise")
         /\ footprint' = IF out = "ok"
                         THEN footprint \ {SrcAgent}
                         ELSE footprint
    /\ pc' = "m_end"
    /\ UNCHANGED <<pickerVars, cpVars, migVars>>
    /\ UNCHANGED <<nsVars, callVars>>
    /\ UNCHANGED <<removeLog, removed, accepted, presenceOK,
                   ensRaised, errored, vfy, acceptedRouters>>
    /\ UNCHANGED <<self_retry, stopl3, err, depth, stopped, evacuated,
                   leftReported>>

\* _ensure_router_cleaned(src_agent, router): the interfaces of the
\* router's namespace are listed on the host of src_agent and, when any is
\* left, deleted together with the namespace; an exception is caught and
\* logged, and leaves the host as it is.
ensure_router_cleaned ==
    /\ pc = "clean"
    /\ cleanedSrc' = TRUE
    /\ \E out \in {"ok", "raise"} :
         /\ warned' = (warned \/ out = "raise")
         /\ opFailed' = (opFailed \/ out = "raise")
         /\ footprint' = IF out = "ok"
                         THEN footprint \ {src_agent}
                         ELSE footprint
    /\ pc' = "m_end"
    /\ UNCHANGED <<pickerVars, cpVars, migVars>>
    /\ UNCHANGED <<nsVars, callVars>>
    /\ UNCHANGED <<removeLog, removed, accepted, presenceOK,
                   ensRaised, errored, vfy, acceptedRouters>>
    /\ UNCHANGED <<self_retry, stopl3, err, depth, stopped, evacuated,
                   leftReported>>

\* _retry_failed_router(router, src_agent, retry): returns at retry < 0;
\* otherwise lists the agents hosting the router (not in a try block) and
\* either ensures the router on the first of them or adds it back to the
\* source agent.
retry_failed_router ==
    /\ pc = "retry"
    /\ IF recRetry < 0
       THEN /\ pc' = "m_end"
            /\ UNCHANGED <<err, ensAgent, addTo, retry, opFailed>>
       ELSE \E out \in {"answer", "nexc"} :
              \/ /\ out = "nexc"
                 /\ err' = "NeutronClientException"
                 /\ pc' = "crashed"
                 /\ opFailed' = TRUE
                 /\ UNCHANGED <<ensAgent, addTo, retry>>
              \/ /\ out = "answer"
                 /\ UNCHANGED <<err, opFailed>>
                 /\ IF Cardinality(hosting[cur]) > 0
                    THEN /\ \E agent \in hosting[cur] : ensAgent' = agent
                         /\ pc' = "ensure"
                         /\ UNCHANGED <<addTo, retry>>
                    ELSE /\ addTo' = src_agent
                         /\ retry' = self_retry
                         /\ pc' = "add_call"
                         /\ UNCHANGED ensAgent
    /\ UNCHANGED <<pickerVars, cpVars>>
    /\ UNCHANGED <<removeLog, removed, accepted, warned, presenceOK,
                   cleanedSrc, ensRaised, errored, vfy, acceptedRouters>>
    /\ UNCHANGED <<cur, tgt, src_agent, curPorts, added, recRetry, inRecon>>
    /\ UNCHANGED <<self_retry, stopl3, depth, stopped, evacuated,
                   leftReported>>
    /\ UNCHANGED hostVars

\* migrate_router returns ("migrate end"); evacuate() loops.
migrate_end ==
    /\ pc = "m_end"
    /\ acceptedRouters' = IF accepted THEN acceptedRouters \cup {cur}
                                   ELSE acceptedRouters
    /\ cur' = None /\ tgt' = None /\ src_agent' = None /\ curPorts' = 0
    /\ retry' = 0 /\ addTo' = None /\ added' = FALSE /\ recRetry' = 0
    /\ inRecon' = FALSE /\ ensAgent' = None
    /\ removeLog' = <<>> /\ removed' = "none" /\ accepted' = FALSE
    /\ warned' = FALSE /\ presenceOK' = FALSE
    /\ cleanedSrc' = FALSE /\ ensRaised' = FALSE
    /\ opFailed' = FALSE
    /\ errored' = FALSE
    /\ vfy' = NoVerify
    /\ pc' = "evacuate"
    /\ UNCHANGED <<pickerVars, cpVars>>
    /\ UNCHANGED <<self_retry, stopl3, err, depth, stopped, evacuated,
                   leftReported>>
    /\ footprint' = {}
    /\ UNCHANGED <<nsVars, callVars>>

\* -------------------------------------------------------------------- run
\* A run() that stops the agent without looking at the routers left.
run_check_stop_anyway ==
    /\ pc = "check"
    /\ LET left_routers == list_routers_on_l3_agent(SrcAgent)
       IN  IF stopl3
           THEN /\ stopped' = TRUE
                /\ pc' = "summary"
                /\ UNCHANGED <<depth, leftReported>>
           ELSE /\ leftReported' =
                     {left_routers[i] : i \in 1..Len(left_routers)}
                /\ pc' = "summary"
                /\ UNCHANGED <<depth, stopped>>
    /\ UNCHANGED <<pickerVars, cpVars, migVars, histVars>>
    /\ UNCHANGED <<self_retry, stopl3, err, evacuated>>
    /\ UNCHANGED hostVars

\* run(), after evacuate(): with stopl3 the source is listed again and
\* either stopped (nothing left) or run() calls itself; without it the
\* routers left are named in warnings.  The nesting of run() has no bound
\* in the code; depth counts it up to MaxReruns and stays there.
run_check ==
    /\ pc = "check"
    /\ LET left_routers == list_routers_on_l3_agent(SrcAgent)
       IN  IF stopl3
           THEN IF Len(left_routers) = 0
                THEN /\ stopped' = TRUE
                     /\ pc' = "summary"
                     /\ UNCHANGED <<depth, leftReported>>
                ELSE /\ depth' = IF depth < MaxReruns THEN depth + 1
                                                     ELSE depth
                     /\ pc' = "run"
                     /\ UNCHANGED <<stopped, leftReported>>
           ELSE /\ leftReported' =
                     {left_routers[i] : i \in 1..Len(left_routers)}
                /\ pc' = "summary"
                /\ UNCHANGED <<depth, stopped>>
    /\ UNCHANGED <<pickerVars, cpVars, migVars, histVars>>
    /\ UNCHANGED <<self_retry, stopl3, err, evacuated>>
    /\ UNCHANGED hostVars

\* run(), the summary: evacuated = self.picker.src_router_count; a nested
\* run() returns into the one that called it, which logs its own summary.
run_summary ==
    /\ pc = "summary"
    /\ evacuated' = src_router_count
    /\ IF depth > 0
       THEN depth' = depth - 1 /\ pc' = "summary"
       ELSE depth' = depth /\ pc' = "done"
    /\ UNCHANGED <<pickerVars, cpVars, migVars, histVars>>
    /\ UNCHANGED <<self_retry, stopl3, err, stopped, leftReported>>
    /\ UNCHANGED hostVars

\* The Neutron scheduler: it binds a router that no agent hosts to an
\* agent, between two calls of the program that read the binding.
scheduler ==
    /\ schedLeft > 0
    /\ \E r \in RouterIds, a \in Agents :
         /\ hosting[r] = {}
         /\ \/ pc \in {"remove_poll", "add_call", "retry"} /\ r = cur
            \/ pc = "check"
         /\ hosting' = [hosting EXCEPT ![r] = {a}]
    /\ schedLeft' = schedLeft - 1
    /\ UNCHANGED <<pickerVars, runVars, migVars, histVars>>
    /\ UNCHANGED hostVars

Next ==
    \/ picker_init
    \/ BalancePicker_init_step
    \/ CyclePicker_init_step
    \/ picker_init_raise
    \/ picker_init_return
    \/ evacuate_next
    \/ evacuate_end
    \/ remove_router_call
    \/ remove_router_poll
    \/ add_router_call
    \/ add_router_poll
    \/ migrate_list_ports
    \/ ensure_router_added
    \/ ensure_router_cleaned
    \/ retry_failed_router
    \/ migrate_end
    \/ run_check
    \/ run_summary
    \/ scheduler

Spec == Init /\ [][Next]_vars

\* One migrate_router call: the source hosts a single router and is not
\* stopped afterwards.
InitMigrate ==
    \E kind \in {"balance", "cycle"}, D \in 0..MaxDest, r \in 0..MaxRetry :
        /\ PickerConstructed(kind, D, [d \in 1..D |-> 0], 1)
        /\ EvacuatorConstructed(r, FALSE)
        /\ schedLeft = MaxSched
        /\ NsIdle /\ CallIdle

SpecMigrate == InitMigrate /\ [][Next]_vars

\* An evacuation that stops the agent afterwards (--stopl3): one router on
\* the source, the default retry budget, and a scheduler that places at
\* most one router while the evacuation runs.
InitStop ==
    \E kind \in {"balance", "cycle"}, D \in 0..MaxDest :
        /\ PickerConstructed(kind, D, [d \in 1..D |-> 0], 1)
        /\ EvacuatorConstructed(DefaultRetry, TRUE)
        /\ schedLeft = 1
        /\ NsIdle /\ CallIdle

SpecStop == InitStop /\ [][Next]_vars

\* The steps of the program itself (everything but the scheduler).  The
\* program is one sequential thread: it takes its next step whenever it
\* has one.
Program ==
    \/ picker_init
    \/ BalancePicker_init_step
    \/ CyclePicker_init_step
    \/ picker_init_raise
    \/ picker_init_return
    \/ evacuate_next
    \/ evacuate_end
    \/ remove_router_call
    \/ remove_router_poll
    \/ add_router_call
    \/ add_router_poll
    \/ migrate_list_ports
    \/ ensure_router_added
    \/ ensure_router_cleaned
    \/ retry_failed_router
    \/ migrate_end
    \/ run_check
    \/ run_summary

SpecStopFair == InitStop /\ [][Next]_vars /\ WF_vars(Program)

\* One migrate_router call with every retry budget within the bound and a
\* scheduler that places the router at most once, the program taking its
\* next step whenever it has one.
InitMigrateFair ==
    \E kind \in {"balance", "cycle"}, D \in 0..MaxDest, r \in 0..MaxRetry :
        /\ PickerConstructed(kind, D, [d \in 1..D |-> 0], 1)
        /\ EvacuatorConstructed(r, FALSE)
        /\ schedLeft = 1
        /\ NsIdle /\ CallIdle

SpecMigrateFair == InitMigrateFair /\ [][Next]_vars /\ WF_vars(Program)

\* A caller that, once the evacuation loop is over, migrates an evacuated
\* router back: migrate_router(self._src_agent, router, src_agent=b) for
\* a router accepted on destination b and hosted by b alone.
migrate_back ==
    /\ pc = "evacuate"
    /\ ~has_next(dest_routers)
    /\ \E r \in acceptedRouters, b \in Dests :
         /\ hosting[r] = {b}
         /\ cur' = r
         /\ tgt' = SrcAgent
         /\ src_agent' = b
         /\ footprint' = {b}
    /\ UNCHANGED <<nsVars, callVars>>
    /\ retry' = self_retry
    /\ pc' = "remove_call"
    /\ UNCHANGED <<curPorts, addTo, added, recRetry, inRecon, ensAgent>>
    /\ UNCHANGED <<pickerVars, cpVars, runVars_but_pc, histVars>>

NextRoundTrip ==
    \/ Next
    \/ migrate_back

\* A round trip: one router on the source, the default retry budget, no
\* stop afterwards, and a scheduler that places at most one router.
InitRoundTrip ==
    \E kind \in {"balance", "cycle"}, D \in 0..MaxDest :
        /\ PickerConstructed(kind, D, [d \in 1..D |-> 0], 1)
        /\ EvacuatorConstructed(DefaultRetry, FALSE)
        /\ schedLeft = 1
        /\ NsIdle /\ CallIdle

SpecRoundTrip == InitRoundTrip /\ [][NextRoundTrip]_vars

\* ------------------------------------------ _ensure_clean_router_on_host
\* One host and one router.  An interface name is <<prefix, n>>; ls -1
\* prints the names of /sys/class/net in this order, one per line.
Lo == <<"lo", 0>>
NicNames == <<Lo, <<"qg-", 1>>, <<"qr-", 1>>, <<"tap", 1>>>>
CannotOpen == <<"Cannot open network namespace", 0>>
Dark == <<"dark", 0>>

Namespace(S) == [exists |-> TRUE, nics |-> S \cup {Lo}]
NamespaceStates ==
    {Absent} \cup {Namespace(S) : S \in SUBSET {NicNames[i] : i \in 2..4}}

\* remote_runner.run(host, _cmd_list_nic_in_netns(netns)): (True, stdout)
\* when the command ran with rc 0, (False, stderr) otherwise; a host that
\* was not contacted answers with its "dark" entry.  The output is given
\* line by line.
run_list_nic_in_netns(ns, contacted) ==
    LET In(n) == n \in ns.nics
    IN  IF ~contacted
        THEN [rc |-> FALSE, output |-> <<Dark>>]
        ELSE IF ~ns.exists
        THEN [rc |-> FALSE, output |-> <<CannotOpen>>]
        ELSE [rc |-> TRUE, output |-> SelectSeq(NicNames, In)]

\* A _list_nics_in_netns_on_remote that keeps the loopback interface.
list_nics_in_netns_on_remote_keep_lo(run) ==
    IF run.rc
    THEN [raised |-> FALSE, nics |-> run.output]
    ELSE IF \E i \in 1..Len(run.output) : run.output[i] = CannotOpen
    THEN [raised |-> FALSE, nics |-> <<>>]
    ELSE [raised |-> TRUE, nics |-> <<>>]

\* _list_nics_in_netns_on_remote: the lines of the output other than lo;
\* no interface when the namespace cannot be opened; an exception when the
\* command failed for another reason.
list_nics_in_netns_on_remote(run) ==
    LET NotLo(n) == n # Lo
    IN  IF run.rc
        THEN [raised |-> FALSE, nics |-> SelectSeq(run.output, NotLo)]
        ELSE IF \E i \in 1..Len(run.output) : run.output[i] = CannotOpen
        THEN [raised |-> FALSE, nics |-> <<>>]
        ELSE [raised |-> TRUE, nics |-> <<>>]

\* _clean_nics_on_host: one ovs-vsctl del-port per interface, on br-router
\* for a qg- name, on br-int for a qr- name, with no bridge otherwise.
clean_nics_on_host(nics) ==
    [i \in 1..Len(nics) |->
        <<"del-port",
          IF nics[i][1] = "qg-" THEN "br-router"
          ELSE IF nics[i][1] = "qr-" THEN "br-int" ELSE "",
          nics[i]>>]

\* _clean_netns_on_host: ip netns delete.
clean_netns_on_host == <<<<"netns-delete", "", Lo>>>>

\* The host after the commands of a forced cleanup: a namespace deleted
\* with success is gone; otherwise the qg-/qr- ports deleted with success
\* are gone from it (del-port --if-exists succeeds on a name that is no
\* port of the bridge and leaves it).
host_after_cleanup(ns, nics, delOk, nsOk) ==
    IF nsOk
    THEN Absent
    ELSE IF delOk
    THEN [ns EXCEPT !.nics = @ \ {nics[i] : i \in
                                    {j \in 1..Len(nics) :
                                       nics[j][1] \in {"qg-", "qr-"}}}]
    ELSE ns

\* _ensure_clean_router_on_host(agent, router): lists the interfaces of
\* the namespace; with none it returns True; otherwise it deletes each
\* interface and the namespace, whatever the commands answer, and returns
\* True.  delOk, nsOk: the del-port commands, the namespace deletion,
\* succeeded.
ensure_clean_router_on_host ==
    /\ Len(cleanLog) < MaxCleanCalls
    /\ \E contacted \in BOOLEAN, delOk \in BOOLEAN, nsOk \in BOOLEAN :
         LET result == list_nics_in_netns_on_remote(
                           run_list_nic_in_netns(netns, contacted))
             call == [before |-> netns, contacted |-> contacted]
         IN  IF result.raised
             THEN /\ delOk /\ nsOk
                  /\ netns' = netns
                  /\ cleanLog' = Append(cleanLog,
                       [call |-> call, returned |-> "raise",
                        cmds |-> <<>>, succeeded |-> FALSE,
                        after |-> netns])
             ELSE IF Len(result.nics) = 0
             THEN /\ delOk /\ nsOk
                  /\ netns' = netns
                  /\ cleanLog' = Append(cleanLog,
                       [call |-> call, returned |-> "true",
                        cmds |-> <<>>, succeeded |-> FALSE,
                        after |-> netns])
             ELSE /\ netns' = host_after_cleanup(netns, result.nics,
                                                 delOk, nsOk)
                  /\ cleanLog' = Append(cleanLog,
                       [call |-> call, returned |-> "true",
                        cmds |-> clean_nics_on_host(result.nics)
                                   \o clean_netns_on_host,
                        succeeded |-> (delOk /\ nsOk),
                        after |-> netns'])
    /\ footprint' = footprint
    /\ UNCHANGED callVars
    /\ UNCHANGED <<pickerVars, cpVars, runVars, migVars, histVars>>

\* The calls made one after the other on a host left alone in between.
InitHost ==
    /\ PickerConstructed("balance", 0, <<>>, 0)
    /\ EvacuatorConstructed(DefaultRetry, FALSE)
    /\ schedLeft = 0
    /\ netns \in NamespaceStates
    /\ cleanLog = <<>>
    /\ CallIdle

NextHost ==
    \/ ensure_clean_router_on_host

SpecHost == InitHost /\ [][NextHost]_vars


\* ------------------------------------------------ _verify_router_on_host
\* Port ids: a common head and two characters more, so that the ids differ
\* at character 11 or only after it.
IdHead == <<"0", "1", "2", "3", "4", "5", "6", "7", "8", "9">>
PortIds == {IdHead \o <<x, y>> : x \in {"a", "b"}, y \in {"a", "b"}}
DeviceOwners == {"network:router_interface", "network:router_gateway",
                 "network:dhcp"}
Ports == [id : PortIds, device_owner : DeviceOwners]
NoNic == <<"", <<>>>>

\* A name for the interface of every port, whatever its device_owner.
nic_of_port_any_owner(one_port) ==
    IF one_port.device_owner = "network:router_gateway"
    THEN <<"qg-", SubSeq(one_port.id, 1, NicIdLen)>>
    ELSE <<"qr-", SubSeq(one_port.id, 1, NicIdLen)>>

\* _verify_ports_on_host, the name looked for: "qr-%s" % id[0:11] for a
\* router_interface port, "qg-%s" % id[0:11] for a router_gateway port,
\* none for another port (continue).
nic_of_port(one_port) ==
    IF one_port.device_owner = "network:router_interface"
    THEN <<"qr-", SubSeq(one_port.id, 1, NicIdLen)>>
    ELSE IF one_port.device_owner = "network:router_gateway"
    THEN <<"qg-", SubSeq(one_port.id, 1, NicIdLen)>>
    ELSE NoNic

\* The interface names a namespace may hold.
NsNics == {<<p, SubSeq(id, 1, NicIdLen)>> : p \in {"qr-", "qg-"},
                                            id \in PortIds}

\* _verify_ports_on_host, the for loop: state = state & (nic in result).
RECURSIVE verify_ports_loop(_, _, _, _)
verify_ports_loop(ports, i, result, state) ==
    IF i > Len(ports)
    THEN state
    ELSE IF nic_of_port(ports[i]) = NoNic
    THEN verify_ports_loop(ports, i + 1, result, state)
    ELSE verify_ports_loop(ports, i + 1, result,
                           state /\ (nic_of_port(ports[i]) \in result))

\* _verify_ports_on_host with the ports and the listing given: True with
\* no port, before the namespace is listed; listing is what
\* _list_nics_in_netns_on_remote gives.
verify_ports_on_host_listed(ports, listing) ==
    IF Len(ports) = 0
    THEN "true"
    ELSE IF listing.raised
    THEN "raise"
    ELSE IF verify_ports_loop(ports, 1, listing.nics, TRUE)
    THEN "true" ELSE "false"

\* _verify_ipforward_on_host with the answer of the command given.
verify_ipforward_on_host_run(run) ==
    IF run.rc THEN run.output = "1" ELSE FALSE

\* _verify_router_on_host.
verify_router_on_host_listed(ports, listing, run) ==
    LET verify_ports == verify_ports_on_host_listed(ports, listing)
    IN  IF verify_ports # "true"
        THEN verify_ports
        ELSE IF verify_ipforward_on_host_run(run) THEN "true" ELSE "false"

RECURSIVE SeqsUpTo(_, _)
SeqsUpTo(S, n) ==
    IF n = 0
    THEN {<<>>}
    ELSE SeqsUpTo(S, n - 1) \cup
           {Append(s, x) : s \in {t \in SeqsUpTo(S, n - 1) : Len(t) = n - 1},
                           x \in S}

\* One call: the ports, the interfaces of the namespace (or the listing
\* raising), the ip_forward command failing or printing 1 or 0.
InitVerify ==
    /\ PickerConstructed("balance", 0, <<>>, 0)
    /\ EvacuatorConstructed(DefaultRetry, FALSE)
    /\ schedLeft = 0
    /\ NsIdle
    /\ waitCall = <<>> /\ waitResult = NoWait
    /\ verifyResult = "none"
    /\ \E ports \in SeqsUpTo(Ports, MaxVerifyPorts),
          nics \in SUBSET NsNics, raised \in BOOLEAN,
          run \in {[rc |-> TRUE, output |-> "1"],
                   [rc |-> TRUE, output |-> "0"],
                   [rc |-> FALSE, output |-> "1"]} :
         /\ raised => nics = {}
         /\ verifyCall = [ports |-> ports,
                          listing |-> [raised |-> raised, nics |-> nics],
                          run |-> run]

verify_router_on_host_call ==
    /\ verifyResult = "none"
    /\ verifyResult' = verify_router_on_host_listed(
                           verifyCall.ports, verifyCall.listing,
                           verifyCall.run)
    /\ UNCHANGED <<verifyCall, waitCall, waitResult>>
    /\ UNCHANGED <<footprint, nsVars>>
    /\ UNCHANGED <<pickerVars, cpVars, runVars, migVars, histVars>>

NextVerify ==
    \/ verify_router_on_host_call

SpecVerify == InitVerify /\ [][NextVerify]_vars

\* ----------------------------------------------------------- _wait_until
\* One call: every interval from 1, timeout and least wait within the
\* bounds, func True first on poll firstTrue or never.
InitWait ==
    /\ PickerConstructed("balance", 0, <<>>, 0)
    /\ EvacuatorConstructed(DefaultRetry, FALSE)
    /\ schedLeft = 0
    /\ NsIdle
    /\ verifyCall = <<>> /\ verifyResult = "none"
    /\ waitResult = NoWait
    /\ \E firstTrue \in {Never} \cup (0..MaxLeastWait),
          wait_timeout \in 0..MaxWaitTimeout,
          wait_interval \in 1..MaxWaitInterval,
          least_wait_time \in 0..MaxLeastWait :
         waitCall = [firstTrue |-> firstTrue,
                     wait_timeout |-> wait_timeout,
                     wait_interval |-> wait_interval,
                     least_wait_time |-> least_wait_time]

wait_until_call ==
    /\ ~waitResult.done
    /\ LET w == wait_until(waitCall.firstTrue, waitCall.wait_timeout,
                           waitCall.wait_interval,
                           waitCall.least_wait_time)
       IN  waitResult' = [done |-> TRUE, ok |-> w.ok, polls |-> w.polls,
                          found |-> w.found]
    /\ UNCHANGED <<verifyCall, verifyResult, waitCall>>
    /\ UNCHANGED <<footprint, nsVars>>
    /\ UNCHANGED <<pickerVars, cpVars, runVars, migVars, histVars>>

NextWait ==
    \/ wait_until_call

SpecWait == InitWait /\ [][NextWait]_vars


\* ================================================================= claims
SnapshotSet == {routers[i] : i \in 1..Len(routers)}

\* The places <<destination, position>> of router r in the queues.
QueuePlaces(r) ==
    UNION {{<<d, i>> : i \in {j \in 1..Len(dest_routers[d]) :
                                dest_routers[d][j] = r}} : d \in Dests}

\* The positions of router r among the pairs get_next() returned.
YieldPlaces(r) == {i \in 1..Len(yielded) : yielded[i][2] = r}

SetMax(S) == CHOOSE x \in S : \A y \in S : y <= x
SetMin(S) == CHOOSE x \in S : \A y \in S : x <= y

\* Load of destination d once the routers assigned to it have moved.
PostLoad(d) ==
    agentLoad[d] + Cardinality({r \in SnapshotSet : assignedTo[r] = d})
PostSpread ==
    SetMax({PostLoad(d) : d \in Dests}) - SetMin({PostLoad(d) : d \in Dests})
InitialSpread ==
    SetMax({agentLoad[d] : d \in Dests}) - SetMin({agentLoad[d] : d \in Dests})

\* C5: once init() has returned, every router of the snapshot is assigned
\* to one destination and sits exactly once in that destination's queue or
\* among the pairs already returned by get_next(), paired with that
\* destination; a router outside the snapshot is in neither.  With the
\* queues drained, each assignment has been returned exactly once.
C5_EachAssignmentOnce ==
    pc = "evacuate" =>
      \A r \in RouterIds :
        /\ Cardinality(QueuePlaces(r)) + Cardinality(YieldPlaces(r))
             = IF r \in SnapshotSet THEN 1 ELSE 0
        /\ r \in SnapshotSet => assignedTo[r] \in Dests
        /\ \A p \in QueuePlaces(r) : p[1] = assignedTo[r]
        /\ \A i \in YieldPlaces(r) : yielded[i][1] = assignedTo[r]

\* C5 witness: two routers were handed out to two different destinations
\* and the picker is drained.
C5_Witness ==
    /\ pc = "evacuate"
    /\ ~has_next(dest_routers)
    /\ Len(yielded) = 2
    /\ yielded[1][1] # yielded[2][1]
    /\ yielded[1][2] # yielded[2][2]

\* C6 as stated: after BalancePicker.init() on a non-empty snapshot and a
\* non-empty destination set, the post-assignment loads differ by at most 1.
C6_BalanceSpreadAtMostOne ==
    (pc = "evacuate" /\ pickerKind = "balance" /\ nDest > 0
       /\ Len(routers) > 0)
      => PostSpread <= 1

\* C6 amended: the post-assignment loads differ by at most 1, or by at most
\* the spread of the initial load metrics when that is larger.
C6_BalanceSpreadBounded ==
    (pc = "evacuate" /\ pickerKind = "balance" /\ nDest > 0
       /\ Len(routers) > 0)
      => PostSpread <= Max2(1, InitialSpread)

\* C6 witness: two destinations with loads 1 and 0 receive two routers and
\* end with loads 2 and 1.
C6_Witness ==
    /\ pc = "evacuate" /\ pickerKind = "balance" /\ nDest = 2
    /\ Len(routers) = 2
    /\ agentLoad[1] = 1 /\ agentLoad[2] = 0
    /\ PostLoad(1) = 2 /\ PostLoad(2) = 1

\* C7: BalancePicker.init() takes the snapshot in listing order; the k-th
\* router goes to the destination whose running total (load metric plus
\* routers assigned before it in this init) is lowest, the first such in
\* destination order; totals holds exactly these running totals (one more
\* per router assigned); each queue holds its routers in listing order.
C7_GreedyMinFirst ==
    (pickerKind = "balance"
       /\ (pc = "init_loop" \/ (pc = "evacuate" /\ yielded = <<>>)))
      =>
      /\ \A k \in 1..(idx - 1) :
           LET a == assignedTo[routers[k]]
               Running(d) ==
                 agentLoad[d]
                   + Cardinality({j \in 1..(k - 1) :
                                    assignedTo[routers[j]] = d})
           IN  /\ a \in Dests
               /\ \A d \in Dests :
                    /\ Running(a) <= Running(d)
                    /\ d < a => Running(a) < Running(d)
      /\ \A d \in Dests :
           LET Mine(r) == assignedTo[r] = d
           IN  /\ totals[d] = agentLoad[d]
                    + Cardinality({j \in 1..(idx - 1) :
                                     assignedTo[routers[j]] = d})
               /\ dest_routers[d]
                    = SelectSeq(SubSeq(routers, 1, idx - 1), Mine)

\* C7 witness: two destinations with equal load; the first router went to
\* the first destination (tie), the second router to the second.
C7_Witness ==
    /\ pickerKind = "balance" /\ pc = "evacuate" /\ yielded = <<>>
    /\ nDest = 2 /\ Len(routers) = 2
    /\ agentLoad[1] = agentLoad[2]
    /\ assignedTo[routers[1]] = 1 /\ assignedTo[routers[2]] = 2

\* C1: when migrate_router returns, the router is accepted on an agent, or
\* hosted by the source agent, or named in a logged warning or error; and
\* it is not left hosted by no agent unless reconciliation
\* (_retry_failed_router) was attempted.
C1_NoSilentDrop ==
    pc = "m_end" =>
      /\ accepted \/ SrcAgent \in hosting[cur] \/ warned
      /\ hosting[cur] = {} => inRecon

\* C2: the count of the summary counts only routers whose migration was
\* accepted on a destination, and every other router handed out in this
\* pass is named in the end-of-run warnings.
C2_EvacuatedCountsVerified ==
    pc = "done" =>
      /\ evacuated <= Cardinality(acceptedRouters)
      /\ (SnapshotSet \ acceptedRouters) \subseteq leftReported

\* C3: the cleanup of the source host runs for a router only after a
\* presence check of it on another agent's host has returned True.
C3_CleanupAfterPresence == cleanedSrc => presenceOK

\* C4: _ensure_router_added does not report success when the presence
\* check raised instead of returning True.
C4_RaiseIsNotVerified == ~(ensRaised /\ accepted)

\* C8: after every CyclePicker.init(), the first one and one made by a
\* re-run alike, the k-th router of the snapshot (from 0) is assigned to
\* destination k mod D.
C8_CycleKModD ==
    (pickerKind = "cycle" /\ pc \notin {"run", "init_loop", "crashed"})
      => \A k \in 1..Len(routers) :
           assignedTo[routers[k]] = ((k - 1) % nDest) + 1

\* C9: with no eligible destination and at least one router on the source,
\* init() raises nothing and assigns nothing, no detach or attach is made,
\* and the run ends reporting every router of the source as not evacuated.
C9_EmptyDestinationsReported ==
    (nDest = 0 /\ src_router_count >= 1) =>
      /\ err = "none"
      /\ yielded = <<>>
      /\ pc = "done" => leftReported = SnapshotSet

\* The outcomes of a detach attempt that make _remove_router retry: a
\* NeutronClientException of the call or of the poll, or a poll timeout.
DetachFailures == {"nexc", "poll_nexc", "timeout"}

\* C10: with retry budget r, _remove_router makes at most r + 1 attempts,
\* a further one only after a failed one; it reports success exactly when
\* its last attempt did not fail, and migrate_router then goes on to
\* attach; it reports failure only after r + 1 failed attempts, and then a
\* warning is logged, nothing is attached, and a router whose every detach
\* call raised is still on the source.
C10_DetachRetried ==
    /\ Len(removeLog) <= self_retry + 1
    /\ \A i \in 1..(Len(removeLog) - 1) : removeLog[i] \in DetachFailures
    /\ (removed = "none" /\ pc \in {"remove_call", "remove_poll"}) =>
         /\ \A i \in 1..Len(removeLog) : removeLog[i] \in DetachFailures
         /\ retry = self_retry - Len(removeLog)
    /\ (removed = "yes" /\ removeLog # <<>>) =>
         /\ Last(removeLog) \notin DetachFailures
         /\ pc = "add_call" /\ addTo = tgt
    /\ (removed = "no") =>
         /\ Len(removeLog) = self_retry + 1
         /\ \A i \in 1..Len(removeLog) : removeLog[i] \in DetachFailures
         /\ pc = "m_end" /\ warned /\ ~accepted /\ ~inRecon
         /\ (\A i \in 1..Len(removeLog) : removeLog[i] = "nexc")
              => SrcAgent \in hosting[cur]
    /\ (pc \in {"add_poll", "ports", "ensure", "clean", "retry"})
         => removed = "yes"

\* C10 witness: budget 2, the detach call raised twice and the third
\* attempt was confirmed; migrate_router is about to attach.
C10_Witness ==
    /\ self_retry = 2
    /\ removeLog = <<"nexc", "nexc", "ok">>
    /\ removed = "yes" /\ pc = "add_call"

\* C10, budget 1: the detach call raised twice; the router is left on the
\* source with the removal failure logged.
C10_WitnessBudgetOne ==
    /\ self_retry = 1
    /\ removeLog = <<"nexc", "nexc">>
    /\ removed = "no" /\ pc = "m_end" /\ warned
    /\ SrcAgent \in hosting[cur]

\* C11: once _remove_router has returned False for a router, migrate_router
\* is at its end with the removal failure logged: no _add_router was called
\* for the router (to the target or to any other agent), no
\* _ensure_router_added, no _ensure_router_cleaned and no
\* _retry_failed_router; the control plane is as the last detach attempt
\* left it.
C11_NoAttachAfterFailedDetach ==
    removed = "no" =>
      /\ pc = "m_end"
      /\ warned
      /\ addTo = None /\ ~added
      /\ ensAgent = None /\ ~presenceOK /\ ~accepted
      /\ ~cleanedSrc
      /\ ~inRecon

\* C11 witness: budget 1; the confirmation poll of the first attempt raised
\* and the second detach call raised; migrate_router is at its end.
C11_Witness ==
    /\ self_retry = 1
    /\ removeLog = <<"poll_nexc", "nexc">>
    /\ removed = "no" /\ pc = "m_end"
    /\ addTo = None /\ ensAgent = None /\ ~cleanedSrc

\* C12: a detach attempt whose confirmation poll answered is not counted
\* as failed (timed out) unless the control plane still lists the source
\* agent among the agents hosting the router.
C12_DetachConfirmedWhenSourceGone ==
    (removeLog # <<>> /\ Last(removeLog) = "timeout")
      => SrcAgent \in hosting[cur]

\* C13: _verify_router_on_host of a router for which no admin-enabled
\* port is listed returns True and runs no remote command; and a
\* migrate_router that lists no admin-enabled port for its router ends
\* without _ensure_router_added, cleanup or reconciliation, that is without
\* any remote command.
C13_ZeroPortsNoRemote ==
    /\ vfy.ports = 0 => (vfy.result = "true" /\ ~vfy.remote)
    /\ (pc = "m_end" /\ removed = "yes" /\ curPorts = 0 /\ ~inRecon)
         => (ensAgent = None /\ ~cleanedSrc /\ vfy = NoVerify)

\* C14: right after _ensure_router_added(target_agent, router) in
\* migrate_router, the router counts as verified exactly when the presence
\* check returned True, at once or within the extended wait of
\* (ports + floating ips + routes) seconds, and it enters reconciliation
\* exactly when the presence check never returned True.
C14_VerifiedIffPresenceSeen ==
    (/\ vfy # NoVerify /\ ensAgent = tgt
     /\ \/ pc = "clean" /\ ~inRecon
        \/ pc = "retry" /\ inRecon /\ recRetry = self_retry)
      => /\ accepted <=> presenceOK
         /\ inRecon <=> ~presenceOK

\* C15: in _retry_failed_router, with the router hosted by an agent, the
\* router is verified on that agent (the target or not); the source host
\* is cleaned exactly when _ensure_router_added returned True and that
\* agent is not src_agent, and never when the hosting agent is src_agent.
C15_ReconcileOnHostingAgent ==
    inRecon =>
      /\ pc = "ensure" => hosting[cur] = {ensAgent}
      /\ pc = "clean" => (accepted /\ ensAgent # src_agent
                            /\ hosting[cur] = {ensAgent})
      /\ cleanedSrc => (accepted /\ ensAgent # src_agent)
      /\ (pc = "m_end" /\ accepted /\ ensAgent # src_agent) => cleanedSrc
      /\ (pc = "m_end" /\ ensAgent = src_agent) => ~cleanedSrc

\* C15 witness: reconciliation found the router hosted by an agent that
\* is neither the source nor the target, saw it present there and cleaned
\* the source host.
C15_Witness ==
    /\ inRecon /\ pc = "m_end"
    /\ ensAgent # src_agent /\ ensAgent # tgt
    /\ hosting[cur] = {ensAgent}
    /\ presenceOK /\ accepted /\ cleanedSrc

\* C15, the source case: reconciliation found the router back on the
\* source agent and ensured it there; the source host is not cleaned.
C15_WitnessOnSource ==
    /\ inRecon /\ pc = "m_end"
    /\ ensAgent = src_agent /\ hosting[cur] = {src_agent}
    /\ accepted /\ ~cleanedSrc

\* C16: in _retry_failed_router, a router hosted by no agent is added back
\* to src_agent and to no other agent; there are at most retry budget + 1
\* such rounds; and when the rounds are used up with the router still
\* hosted by no agent, an error naming the router has been logged.
C16_UnownedRestoredOrEscalated ==
    inRecon =>
      /\ pc \in {"add_call", "add_poll"} => addTo = src_agent
      /\ recRetry >= 0 - 1 /\ recRetry <= self_retry
      /\ (pc = "m_end" /\ recRetry < 0 /\ hosting[cur] = {}) => errored

\* C17: _stop_agent is called only from the check that follows the
\* evacuation pass, with --stopl3 set and the source agent listed there
\* as hosting no router; when that listing is not empty the agent is not
\* stopped and run() is entered again, beginning with the picker's init().
C17_StopOnlyWhenSourceEmpty ==
    [][/\ (~stopped /\ stopped') =>
            (pc = "check" /\ stopl3
               /\ Len(list_routers_on_l3_agent(SrcAgent)) = 0)
       /\ (pc = "check" /\ pc' # "check" /\ stopl3
              /\ Len(list_routers_on_l3_agent(SrcAgent)) > 0) =>
            (pc' = "run" /\ ~stopped')
       /\ (pc = "run" /\ pc' # "run") =>
            (pc' = "init_loop"
               /\ routers' = list_routers_on_l3_agent(SrcAgent))]_vars

\* C17 witness: a first pass left a router on the source, run() was
\* entered again, and the agent was stopped after the second listing came
\* back empty.
C17_Witness ==
    /\ stopl3 /\ stopped /\ depth > 0 /\ pc = "summary"
    /\ Len(list_routers_on_l3_agent(SrcAgent)) = 0

\* C18: no exception leaves migrate_router: whatever fails while a router
\* is being migrated (a control-plane request of migrate_router or of
\* _retry_failed_router, a remote command), run() is not aborted with a
\* migration under way.
C18_NoErrorLeavesMigrate ==
    ~(pc = "crashed" /\ cur # None)

\* C19: with --stopl3 and at least one destination, a run() that is not
\* aborted by an exception comes to its end with the source agent
\* stopped (the scheduler places only finitely many routers).
C19_RunEndsStopped ==
    (stopl3 /\ nDest > 0) ~> (pc = "crashed" \/ (pc = "done" /\ stopped))

C21_AbsenceCheckIdempotent ==
    \A i \in 1..Len(cleanLog) :
       LET c == cleanLog[i]
       IN  /\ (c.call.contacted
                 /\ c.call.before \in {Absent, Namespace({})})
                => (c.returned = "true" /\ c.cmds = <<>>
                      /\ c.after = c.call.before)
           /\ (i > 1 /\ c.call.contacted
                 /\ cleanLog[i - 1].cmds # <<>>
                 /\ cleanLog[i - 1].succeeded)
                => (c.call.before = Absent
                      /\ c.returned = "true" /\ c.cmds = <<>>)

\* C21 witness: a namespace with a qr- and a qg- interface left was force
\* cleaned with success, and the two calls that followed returned True
\* without a command.
C21_Witness ==
    /\ Len(cleanLog) = 3
    /\ cleanLog[1].call.before = Namespace({NicNames[2], NicNames[3]})
    /\ Len(cleanLog[1].cmds) = 3 /\ cleanLog[1].succeeded
    /\ cleanLog[2].returned = "true" /\ cleanLog[2].cmds = <<>>
    /\ cleanLog[3].returned = "true" /\ cleanLog[3].cmds = <<>>

\* C21, the empty namespace: two calls in a row on a namespace that holds
\* only lo.
C21_WitnessEmpty ==
    /\ Len(cleanLog) = 2
    /\ cleanLog[1].call = [before |-> Namespace({}), contacted |-> TRUE]
    /\ cleanLog[2].call = [before |-> Namespace({}), contacted |-> TRUE]
    /\ cleanLog[2].returned = "true"

\* The ports of the call that _verify_ports_on_host looks for on the host.
C22_Expected ==
    {i \in 1..Len(verifyCall.ports) :
       verifyCall.ports[i].device_owner
         \in {"network:router_interface", "network:router_gateway"}}
C22_NamePresent(i) ==
    LET port == verifyCall.ports[i]
    IN  <<IF port.device_owner = "network:router_interface"
          THEN "qr-" ELSE "qg-",
          [k \in 1..NicIdLen |-> port.id[k]]>> \in verifyCall.listing.nics

\* C22: _verify_router_on_host, when it returns, returns True exactly when
\* every listed (admin-enabled) port whose device_owner is router_interface
\* or router_gateway has its interface, named by the qr- or qg- prefix
\* and the first 11 characters of the port id, among the interfaces of
\* the namespace, and the ip_forward command succeeded and printed "1";
\* ports with another device_owner play no part, and a missing interface
\* gives False whatever ip_forward is.
C22_PresenceIffPortsAndForward ==
    (verifyResult \in {"true", "false"}) =>
      /\ (verifyResult = "true") <=>
           /\ \A i \in C22_Expected : C22_NamePresent(i)
           /\ verifyCall.run.rc /\ verifyCall.run.output = "1"
      /\ (\E i \in C22_Expected : ~C22_NamePresent(i))
           => verifyResult = "false"

\* C22 witness: two ports whose ids differ only after character 11, one a
\* router_interface port whose interface is in the namespace, the other
\* of another device_owner; ip_forward is 1 and the check returned True.
C22_Witness ==
    /\ verifyResult = "true"
    /\ Len(verifyCall.ports) = 2
    /\ verifyCall.ports[1] = [id |-> IdHead \o <<"a", "a">>,
                              device_owner |-> "network:router_interface"]
    /\ verifyCall.ports[2] = [id |-> IdHead \o <<"a", "b">>,
                              device_owner |-> "network:dhcp"]
    /\ verifyCall.listing.nics = {<<"qr-", IdHead \o <<"a">>>>}

\* C22, a missing interface: the gateway port's interface is not in the
\* namespace; the check returned False with ip_forward 1.
C22_WitnessMissing ==
    /\ verifyResult = "false"
    /\ Len(verifyCall.ports) = 1
    /\ verifyCall.ports[1].device_owner = "network:router_gateway"
    /\ verifyCall.listing.nics = {<<"qr-", IdHead \o <<"a">>>>}
    /\ verifyCall.run = [rc |-> TRUE, output |-> "1"]

\* C25: _wait_until with any interval > 0, timeout and least wait stops at
\* the first poll on which func is True, and returns True exactly when the
\* last poll it made found func True.
C25_WaitTrueIffLastPollTrue ==
    waitResult.done =>
      /\ waitResult.found => waitResult.polls = waitCall.firstTrue + 1
      /\ (~waitResult.found /\ waitCall.firstTrue # Never)
           => waitResult.polls <= waitCall.firstTrue
      /\ waitResult.ok <=> waitResult.found

\* C23: _remove_router reports success only after an attempt whose call
\* returned and whose poll confirmed the detach, and _add_router(target)
\* only after an attempt that left the target hosting the router: an
\* attempt in which an exception was raised, of whatever type, does not
\* count as a success.
C23_SuccessOnlyWhenConfirmed ==
    /\ (pc = "add_call" /\ ~inRecon /\ removed = "yes"
          /\ removeLog # <<>>)
         => Last(removeLog) = "ok"
    /\ (pc = "ports" /\ added) => tgt \in hosting[cur]

\* The place of destination d in the order in which get_next() draws the
\* destinations from the cycle standing at c (0 for c itself).
C24_Place(c, d) == (d - c + nDest) % nDest
C24_NonEmpty == {d \in Dests : Len(dest_routers[d]) > 0}
C24_Queued(q) ==
    Cardinality(UNION {{<<d, i>> : i \in 1..Len(q[d])} : d \in Dests})

\* C24: once init() has returned, has_next() is True exactly when some
\* destination's queue is not empty; get_next() then returns an agent and
\* a router, and (None, None) otherwise, leaving the queues alone; the
\* pair is the last router of the first non-empty queue in the order of
\* the cycle, that router alone leaves the queues, and the cycle moves on
\* past that destination; between two pairs returned one after the other,
\* the destinations passed over have empty queues.
C24_SelectorConsistent ==
    pc = "evacuate" =>
      LET g == get_next(dest_routers, dest_cycle, nDest)
      IN  /\ has_next(dest_routers) <=> C24_NonEmpty # {}
          /\ (g.agent # None) <=> has_next(dest_routers)
          /\ (g.router # None) <=> has_next(dest_routers)
          /\ ~has_next(dest_routers) => g.q = dest_routers
          /\ has_next(dest_routers) =>
               /\ g.agent \in C24_NonEmpty
               /\ \A e \in C24_NonEmpty :
                    C24_Place(dest_cycle, g.agent)
                      <= C24_Place(dest_cycle, e)
               /\ g.router = dest_routers[g.agent][Len(dest_routers[g.agent])]
               /\ \A d \in Dests \ {g.agent} : g.q[d] = dest_routers[d]
               /\ g.q[g.agent] = SubSeq(dest_routers[g.agent], 1,
                                        Len(dest_routers[g.agent]) - 1)
               /\ C24_Queued(g.q) = C24_Queued(dest_routers) - 1
               /\ g.cycle = CycleAdvance(g.agent, nDest)
          /\ \A i \in 1..(Len(yielded) - 1) :
               \A d \in Dests :
                 C24_Place(CycleAdvance(yielded[i][1], nDest), d)
                   < C24_Place(CycleAdvance(yielded[i][1], nDest),
                               yielded[i + 1][1])
                 => dest_routers[d] = <<>>

\* C24 witness: two destinations, both routers in the queue of the
\* second; get_next() passed over the first destination twice and
\* returned the two pairs, last router first; the next call returns
\* (None, None).
C24_Witness ==
    /\ pc = "evacuate" /\ nDest = 2
    /\ Len(yielded) = 2
    /\ yielded[1] = <<2, routers[2]>> /\ yielded[2] = <<2, routers[1]>>
    /\ ~has_next(dest_routers)
    /\ get_next(dest_routers, dest_cycle, nDest).agent = None

\* C24, a queue passed over on the first call: CyclePicker.init() left
\* the cycle at the second destination, whose queue is empty.
C24_WitnessSkip ==
    /\ pc = "evacuate" /\ pickerKind = "cycle" /\ nDest = 2
    /\ Len(routers) = 1 /\ Len(yielded) = 1
    /\ yielded[1][1] = 1

\* A measure of what is left of a migrate_router call: the attempts left
\* to the running _remove_router or _add_router, then the steps and the
\* reconciliation rounds that may still follow.
C26_Round == 2 * self_retry + 4
C26_Rank ==
    IF pc \in {"m_end", "crashed"} THEN 0
    ELSE IF pc = "clean" THEN 1
    ELSE IF inRecon
    THEN IF pc = "ensure" THEN 2
         ELSE IF pc = "retry"
         THEN (recRetry + 1) * C26_Round + C26_Round - 1
         ELSE IF pc = "add_call"
         THEN (recRetry + 1) * C26_Round + 2 * retry + 2
         ELSE (recRetry + 1) * C26_Round + 2 * retry + 1
    ELSE LET ensure == (self_retry + 2) * C26_Round
         IN  IF pc = "ensure" THEN ensure
             ELSE IF pc = "ports" THEN ensure + 1
             ELSE IF pc = "add_poll" THEN ensure + 2 + 2 * retry
             ELSE IF pc = "add_call" THEN ensure + 2 + 2 * retry + 1
             ELSE IF pc = "remove_poll"
             THEN ensure + 2 * self_retry + 4 + 2 * retry
             ELSE ensure + 2 * self_retry + 4 + 2 * retry + 1
C26_MaxRank == (self_retry + 2) * C26_Round + 4 * self_retry + 5

\* C26: migrate_router comes to its end whatever the control plane and
\* the hosts answer: every step of it brings the call nearer to its end
\* by a measure that is at most a function of the retry budget; the
\* running _remove_router or _add_router has between 0 and the budget
\* attempts left, _retry_failed_router at most budget + 1 rounds; a poll
\* loop that never succeeds makes at most (timeout / interval) + 1 polls.
C26_MigrateTerminates ==
    /\ [][(cur # None /\ pc # "m_end"
             /\ ~(UNCHANGED <<pc, retry, recRetry, inRecon>>))
            => C26_Rank' < C26_Rank]_vars
    /\ [](cur # None =>
            /\ C26_Rank >= 0 /\ C26_Rank <= C26_MaxRank
            /\ retry >= 0 /\ retry <= self_retry
            /\ recRetry >= 0 - 1 /\ recRetry <= self_retry
            /\ Len(removeLog) <= self_retry + 1
            /\ wait_until(Never, WaitTimeout, WaitInterval,
                          LeastWaitTime).polls
                 <= (WaitTimeout \div WaitInterval) + 1
            /\ \A others \in 0..MaxExtra :
                 ensure_extended_wait(
                     Never, extra_timeout_for_router(others)).polls
                   <= extra_timeout_for_router(others) + 1)
    /\ (cur # None) ~> (cur = None \/ pc = "crashed")

\* C26 witness: budget 2; the router was detached, could not be attached
\* to the target, and every reconciliation round failed to add it back:
\* the rounds are used up and migrate_router is at its end.
C26_Witness ==
    /\ self_retry = 2 /\ pc = "m_end"
    /\ inRecon /\ recRetry = 0 - 1
    /\ hosting[cur] = {}

====
